---- MODULE Spec2Model ----
(***************************************************************************)
(* Model of the chat endpoint of jbarragan123/chatbot-ai:                  *)
(*   ChatController.handleUserQuery  (src/src/chat/chat.controller.ts)     *)
(*   UserQueryDto                    (src/unnamed/part_000)                *)
(*   ChatService.processUserQuery / searchProducts / convertCurrencies     *)
(*                                   (src/src/chat/chat.service.ts)        *)
(*   OpenAIService.chatWithFunctions (src/src/chat/openai/openai.service.ts)*)
(*                                                                         *)
(* JavaScript values are tagged records; strings that the code inspects    *)
(* character by character (search queries, catalog texts, amounts) are     *)
(* sequences of one-character strings.                                     *)
(***************************************************************************)
EXTENDS Integers, Sequences, FiniteSets, TLC

VARIABLES
    \* ---- one HTTP request through controller and orchestrator ----
    pc,               \* position of the request
    body,             \* the JSON body's `query` member (a JS value)
    currentMessages,  \* chat.service.ts:89  the transcript
    currentResponse,  \* chat.service.ts:90  the last reply of the gateway
    step,             \* chat.service.ts:92
    sent,             \* the transcript handed to the gateway by the last call
    gatewayCalls,     \* number of chatWithFunctions calls made
    dispatches,       \* number of loop bodies entered
    output,           \* value returned by processUserQuery
    error,            \* error raised out of processUserQuery
    \* ---- one searchProducts call on its own ----
    catalog,          \* rows of the CSV file, in file order
    query,            \* the query argument
    searchOutcome,    \* settled promise of searchProducts
    \* ---- one convertCurrencies call on its own ----
    amount, fromCurrency, toCurrency,
    provider,         \* what axios.get(url) produced
    convertOutcome    \* value returned by convertCurrencies

orchVars    == <<pc, body, currentMessages, currentResponse, step, sent,
                 gatewayCalls, dispatches, output, error>>
searchVars  == <<catalog, query, searchOutcome>>
convertVars == <<amount, fromCurrency, toCurrency, provider, convertOutcome>>
vars        == <<orchVars, searchVars, convertVars>>

(***************************************************************************)
(* JavaScript values                                                       *)
(***************************************************************************)
Undefined == [t |-> "undefined"]
Null      == [t |-> "null"]
Str(s)    == [t |-> "string", s |-> s]
Num(n)    == [t |-> "number", n |-> n]
None      == [t |-> "none"]          \* "not yet computed" marker of the model

IsStr(v)  == v.t = "string"

\* Bounds of the standalone tool specifications.
MaxCatalog   == 3
MaxQueryLen  == 2
MaxAmountLen == 5

(***************************************************************************)
(* Strings                                                                 *)
(***************************************************************************)
\* String.prototype.toLowerCase on one character.
LowerChar(c) ==
    CASE c = "A" -> "a"
      [] c = "B" -> "b"
      [] OTHER   -> c

\* String.prototype.toLowerCase
ToLowerCase(s) == [i \in 1..Len(s) |-> LowerChar(s[i])]

\* String.prototype.includes: needle occurs at some offset of hay
\* (the empty needle occurs in every string, the empty one included).
Includes(hay, needle) ==
    \E off \in 0..Len(hay) :
        /\ off + Len(needle) <= Len(hay)
        /\ \A j \in 1..Len(needle) : hay[off + j] = needle[j]

\* Array.prototype.slice(0, n)
SliceFirst(s, n) == SubSeq(s, 1, IF Len(s) < n THEN Len(s) ELSE n)

(***************************************************************************)
(* searchProducts  (chat.service.ts:130-175)                               *)
(***************************************************************************)
\* A CSV row (interface Product); only the fields searchProducts reads.
ProductPool ==
    { [displayTitle |-> <<"A", "b">>,      embeddingText |-> <<"b", " ", "a">>, price |-> "10"],
      [displayTitle |-> <<"b", "B">>,      embeddingText |-> <<"b">>,           price |-> "20"],
      [displayTitle |-> <<"a", " ", "a">>, embeddingText |-> <<>>,              price |-> "30"] }

Catalogs == UNION { [1..n -> ProductPool] : n \in 0..MaxCatalog }

QueryChars == {"a", "A", "b", " "}
Queries == UNION { [1..n -> QueryChars] : n \in 0..MaxQueryLen }

\* Faulty variant of RowMatches: the description is not searched.
RowMatchesTitleOnly(row, q) ==
    Includes(ToLowerCase(row.displayTitle), ToLowerCase(q))

\* The 'data' handler's test, lines 139-141 and 145.
RowMatches(row, q) ==
    LET lowerQuery  == ToLowerCase(q)
        matchInName == Includes(ToLowerCase(row.displayTitle), lowerQuery)
        matchInDesc == Includes(ToLowerCase(row.embeddingText), lowerQuery)
    IN  matchInName \/ matchInDesc

\* matchedResults after the 'data' handler ran on rows 1..n: the positions of
\* the matching rows, in file order (rows are kept by reference).
RECURSIVE MatchedResults(_, _, _)
MatchedResults(rows, q, n) ==
    IF n = 0 THEN <<>>
    ELSE LET before == MatchedResults(rows, q, n - 1)
         IN  IF RowMatches(rows[n], q) THEN Append(before, n) ELSE before

\* allProducts after the 'data' handler ran on every row.
AllProducts(rows) == [i \in 1..Len(rows) |-> i]

\* Faulty variant of Shuffles: each slot is drawn independently (with replacement).
ShufflesWithReplacement(arr) ==
    { [i \in 1..Len(arr) |-> arr[p[i]]] : p \in [1..Len(arr) -> 1..Len(arr)] }

\* The arrays Array.prototype.sort may leave behind with the comparator
\* () => 0.5 - Math.random(): some rearrangement of the same elements.
Shuffles(arr) ==
    { [i \in 1..Len(arr) |-> arr[p[i]]] :
        p \in { f \in [1..Len(arr) -> 1..Len(arr)] :
                  \A i, j \in 1..Len(arr) : i # j => f[i] # f[j] } }

\* Number of entries both branches keep (slice(0, 2), lines 154 and 158).
SelectCount == 2

\* Lines 162-171: header, the numbered blocks, the closing sentence.
FormatProducts(rows, selectedProducts, messageHeader, q) ==
    [ header  |-> messageHeader,
      query   |-> q,
      blocks  |-> [i \in 1..Len(selectedProducts) |->
                     [ n     |-> i,
                       title |-> rows[selectedProducts[i]].displayTitle,
                       text  |-> rows[selectedProducts[i]].embeddingText,
                       price |-> rows[selectedProducts[i]].price ]],
      closing |-> "Would any of these interest you?" ]

\* The 'end' handler, lines 149-172, with `shuffled` the array the sort left.
OnEnd(rows, q, shuffled) ==
    LET matchedResults == MatchedResults(rows, q.s, Len(rows))
        found          == Len(matchedResults) > 0
        selectedProducts ==
            IF found THEN SliceFirst(matchedResults, SelectCount)
                     ELSE SliceFirst(shuffled, SelectCount)
        messageHeader == IF found THEN "related" ELSE "fallback"
    IN  [ settled          |-> "resolved",
          selectedProducts |-> selectedProducts,
          value            |-> FormatProducts(rows, selectedProducts, messageHeader, q) ]

\* Every way one searchProducts(q) call can settle. `readable` says whether the
\* read stream could open and read the file. q is the JS value passed in.
SearchProducts(rows, readable, q) ==
    IF ~readable
      THEN \* line 173: the stream's 'error' event rejects the promise
           { [settled |-> "rejected", error |-> "CatalogUnavailable"] }
    ELSE IF Len(rows) > 0 /\ ~IsStr(q)
      THEN \* line 139: query.toLowerCase() on a non-string throws in the
           \* first 'data' event; nothing turns it into a result string
           { [settled |-> "rejected", error |-> "QueryNotString"] }
    ELSE IF Len(rows) = 0
      THEN \* no 'data' event: matchedResults is empty, `${query}` is printed
           { [ settled          |-> "resolved",
               selectedProducts |-> <<>>,
               value            |-> FormatProducts(rows, <<>>, "fallback", q) ] }
    ELSE { OnEnd(rows, q, sh) : sh \in Shuffles(AllProducts(rows)) }

(***************************************************************************)
(* convertCurrencies  (chat.service.ts:186-236)                            *)
(***************************************************************************)
AmountChars == {"1", "2", "-", " "}
AmountStrings == UNION { [1..n -> AmountChars] : n \in 0..MaxAmountLen }

IsDigit(c) == c \in {"1", "2"}
DigitValue(c) == IF c = "1" THEN 1 ELSE 2

NaN == [nan |-> TRUE, n |-> 0]
Finite(n) == [nan |-> FALSE, n |-> n]

\* String.prototype.trim
RECURSIVE TrimStart(_)
TrimStart(s) == IF Len(s) > 0 /\ s[1] = " " THEN TrimStart(Tail(s)) ELSE s
RECURSIVE TrimEnd(_)
TrimEnd(s) ==
    IF Len(s) > 0 /\ s[Len(s)] = " " THEN TrimEnd(SubSeq(s, 1, Len(s) - 1)) ELSE s
Trim(s) == TrimEnd(TrimStart(s))

\* Value of a string of decimal digits.
RECURSIVE DecimalValue(_)
DecimalValue(ds) ==
    IF Len(ds) = 0 THEN 0
    ELSE 10 * DecimalValue(SubSeq(ds, 1, Len(ds) - 1)) + DigitValue(ds[Len(ds)])

\* Length of the longest prefix of s made of digits.
RECURSIVE DigitPrefixLen(_)
DigitPrefixLen(s) ==
    IF Len(s) > 0 /\ IsDigit(s[1]) THEN 1 + DigitPrefixLen(Tail(s)) ELSE 0

\* parseFloat on a string without sign, point or exponent: leading white
\* space is skipped, the longest digit prefix is read, the rest is ignored.
ParseFloat(s) ==
    LET t == TrimStart(s)
        k == DigitPrefixLen(t)
    IN  IF k = 0 THEN NaN ELSE Finite(DecimalValue(SubSeq(t, 1, k)))

\* String.prototype.split('-')
RECURSIVE SplitDash(_)
SplitDash(s) ==
    IF ~(\E i \in 1..Len(s) : s[i] = "-") THEN << s >>
    ELSE LET i == CHOOSE k \in 1..Len(s) :
                      s[k] = "-" /\ \A j \in 1..(k - 1) : s[j] # "-"
         IN  << SubSeq(s, 1, i - 1) >> \o SplitDash(SubSeq(s, i + 1, Len(s)))

\* Number.prototype.toFixed(2) of a value given in hundredths.
ToFixed2(cents) ==
    LET a == IF cents < 0 THEN -cents ELSE cents
    IN  [ sign |-> IF cents < 0 THEN "-" ELSE "",
          int  |-> a \div 100,
          frac |-> a % 100 ]

\* A rate table is response.data.results: the provider's JSON object as the
\* sequence of its members, in member order; a rate is held in hundredths.
Currencies == {"USD", "GBP"}
RateValues == {0, 85, 110}
RateTables ==
    { tb \in UNION { [1..n -> [currency : Currencies, rate : RateValues]] : n \in 0..2 } :
        \A i, j \in 1..Len(tb) : i # j => tb[i].currency # tb[j].currency }

\* What `await axios.get(url)` can produce: a thrown error, a body without
\* `results` (hasResults is FALSE), or a body with a rate table.
ProviderResponses ==
    { [kind |-> "error"], [kind |-> "ok", hasResults |-> FALSE, results |-> <<>>] }
      \cup { [kind |-> "ok", hasResults |-> TRUE, results |-> tb] : tb \in RateTables }

\* Template-literal rendering of a JS value used as a property key.
KeyOf(v) == IF IsStr(v) THEN v.s ELSE v.t

\* Faulty variant of RateOf: the first member's rate, whatever its currency.
RateOfFirst(rates, to) == rates[1].rate

\* rates[toCurrency] (line 208): the member's rate, or 0 when there is none
\* (an absent member and a zero rate both fail the `!rate` test of line 209).
RateOf(rates, to) ==
    IF \E i \in 1..Len(rates) : rates[i].currency = KeyOf(to)
      THEN rates[CHOOSE i \in 1..Len(rates) : rates[i].currency = KeyOf(to)].rate
      ELSE 0

\* Lines 199-217: the range branch.
ConvertRange(amt, from, to, rates) ==
    LET parts  == SplitDash(amt.s)
        minStr == Trim(parts[1])
        maxStr == Trim(parts[2])
        min    == ParseFloat(minStr)
        max    == ParseFloat(maxStr)
        rate   == RateOf(rates, to)
    IN  IF min.nan \/ max.nan
          THEN [msg |-> "InvalidRange", amount |-> amt]
        ELSE IF rate = 0
          THEN [msg |-> "RateNotAvailable", to |-> to]
        ELSE [ msg |-> "Range", amount |-> amt, from |-> from,
               convertedMin |-> ToFixed2(min.n * rate),
               convertedMax |-> ToFixed2(max.n * rate),
               to |-> to ]

\* Lines 219-231: the single-amount branch.
ConvertSingle(amt, from, rates) ==
    LET numericAmount ==
            IF IsStr(amt) THEN ParseFloat(amt.s)
            ELSE IF amt.t = "number" THEN Finite(amt.n)
            ELSE NaN                      \* isNaN(undefined)
    IN  IF numericAmount.nan
          THEN [msg |-> "InvalidAmount", amount |-> amt]
          ELSE [ msg |-> "List",
                 resultStrings |->
                   [i \in 1..Len(rates) |->
                      [ amount   |-> numericAmount.n,
                        from     |-> from,
                        value    |-> ToFixed2(numericAmount.n * rates[i].rate),
                        currency |-> rates[i].currency ]] ]

\* convertCurrencies: the string it returns, as a record of its parts.
ConvertCurrencies(amt, from, to, resp) ==
    IF resp.kind = "error"
      THEN [msg |-> "ConvertError"]                       \* lines 232-235
    ELSE IF ~resp.hasResults \/ Len(resp.results) = 0
      THEN [msg |-> "NoRates", from |-> from, to |-> to]  \* lines 194-196
    ELSE IF IsStr(amt) /\ Includes(amt.s, <<"-">>)
      THEN ConvertRange(amt, from, to, resp.results)
    ELSE ConvertSingle(amt, from, resp.results)

(***************************************************************************)
(* Standalone tool calls                                                   *)
(***************************************************************************)
IdleOrch ==
    /\ pc = "Idle" /\ body = Undefined /\ currentMessages = <<>>
    /\ currentResponse = None /\ step = 0 /\ sent = <<>> /\ gatewayCalls = 0
    /\ dispatches = 0 /\ output = None /\ error = "none"

IdleSearch == catalog = <<>> /\ query = Undefined /\ searchOutcome = None

IdleConvert ==
    /\ amount = Undefined /\ fromCurrency = Undefined /\ toCurrency = Undefined
    /\ provider = None /\ convertOutcome = None

InitSearch ==
    /\ catalog \in Catalogs
    /\ query \in { Str(q) : q \in Queries }
    /\ searchOutcome = None
    /\ IdleOrch /\ IdleConvert

\* The stream delivers every row and ends.
Search ==
    /\ searchOutcome = None
    /\ searchOutcome' \in SearchProducts(catalog, TRUE, query)
    /\ UNCHANGED <<catalog, query, orchVars, convertVars>>

\* The stream fails to open or read the file.
SearchStreamError ==
    /\ searchOutcome = None
    /\ searchOutcome' \in SearchProducts(catalog, FALSE, query)
    /\ UNCHANGED <<catalog, query, orchVars, convertVars>>

NextSearch == Search \/ SearchStreamError
SpecSearch == InitSearch /\ [][NextSearch]_vars

\* The toCurrency argument: one code, or the comma-separated list that the
\* fetch-multi request of line 188 accepts in its `to` parameter.
TargetArguments == Currencies \cup {"USD,GBP"}

AmountValues ==
    { Str(a) : a \in AmountStrings } \cup { Num(n) : n \in {0, 100, -5} } \cup { Undefined }

InitConvert ==
    /\ amount \in AmountValues
    /\ fromCurrency = Str("EUR")
    /\ toCurrency \in { Str(c) : c \in TargetArguments }
    /\ provider = None
    /\ convertOutcome = None
    /\ IdleOrch /\ IdleSearch

Convert ==
    /\ convertOutcome = None
    /\ \E resp \in ProviderResponses :
         /\ provider' = resp
         /\ convertOutcome' = ConvertCurrencies(amount, fromCurrency, toCurrency, resp)
    /\ UNCHANGED <<amount, fromCurrency, toCurrency, orchVars, searchVars>>

NextConvert == Convert
SpecConvert == InitConvert /\ [][NextConvert]_vars

(***************************************************************************)
(* The endpoint: controller, DTO, orchestrator, completion gateway         *)
(***************************************************************************)
\* chat.service.ts:93
MaxSteps == 5

\* chat.service.ts:120
Placeholder == Str("[No final response]")

\* @IsString() on UserQueryDto.query: typeof value === 'string'.
IsString(v) == v.t = "string"

\* The `query` member of the bodies the endpoint may receive: absent, a
\* number, the empty string, a non-empty string.
Bodies == { Undefined, Num(7), Str(""), Str("I am looking for a phone") }

\* The `arguments` string of a function call, by what JSON.parse makes of it:
\* absent or '' (line 97 substitutes '{}'), text that is not JSON, the JSON
\* text null, or a JSON object with the given members.
NoMembers ==
    [query |-> Undefined, amount |-> Undefined,
     fromCurrency |-> Undefined, toCurrency |-> Undefined]
ArgsAbsent    == [form |-> "absent"]
ArgsMalformed == [form |-> "malformed"]
ArgsNull      == [form |-> "null"]
ArgsObject(o) == [form |-> "object", members |-> o]

\* JSON.parse(functionArgs || '{}'), line 97.
JSONParse(functionArgs) ==
    CASE functionArgs.form = "absent"    -> [thrown |-> FALSE, isNull |-> FALSE, members |-> NoMembers]
      [] functionArgs.form = "malformed" -> [thrown |-> TRUE,  isNull |-> FALSE, members |-> NoMembers]
      [] functionArgs.form = "null"      -> [thrown |-> FALSE, isNull |-> TRUE,  members |-> NoMembers]
      [] OTHER -> [thrown |-> FALSE, isNull |-> FALSE, members |-> functionArgs.members]

\* The function calls the completion provider is taken to request.
FunctionCalls ==
    { [name |-> "searchProducts",
       arguments |-> ArgsObject([NoMembers EXCEPT !.query = Str(<<"a">>)])],
      [name |-> "searchProducts",    arguments |-> ArgsObject(NoMembers)],
      [name |-> "convertCurrencies", arguments |-> ArgsMalformed],
      [name |-> "convertCurrencies",
       arguments |-> ArgsObject([NoMembers EXCEPT !.amount = Str(<<"1", " ", "-", " ", "2">>),
                                                  !.fromCurrency = Str("EUR"),
                                                  !.toCurrency = Str("USD")])],
      [name |-> "convertCurrencies", arguments |-> ArgsAbsent],
      [name |-> "lookupOrder",       arguments |-> ArgsObject(NoMembers)],
      [name |-> "lookupOrder",       arguments |-> ArgsNull] }

\* choices[0].message of the provider (openai.service.ts:26): plain text, or
\* a function-call request, which may carry text as well.
Replies ==
    { [role |-> "assistant", content |-> c, function_call |-> None] :
        c \in { Null, Str(""), Str("Here you go") } }
    \cup { [role |-> "assistant", content |-> Null, function_call |-> f] :
             f \in FunctionCalls }
    \cup { [role |-> "assistant", content |-> Str("Let me check"),
            function_call |-> [name |-> "lookupOrder", arguments |-> ArgsObject(NoMembers)]] }

\* The catalog file and the rate provider as the endpoint's requests see them.
OrchCatalog ==
    << [displayTitle |-> <<"A", "b">>, embeddingText |-> <<"b", " ", "a">>, price |-> "10"],
       [displayTitle |-> <<"b", "B">>, embeddingText |-> <<"b">>,           price |-> "20"] >>
OrchProviderResponses ==
    { [kind |-> "error"],
      [kind |-> "ok", hasResults |-> TRUE,
       results |-> << [currency |-> "USD", rate |-> 110] >>] }

\* Lines 99-107: every way the routed tool call can come back: a string for
\* functionResult, or an error thrown into the loop body (reading a member
\* of parsedArgs throws a TypeError when the arguments were the JSON null).
ToolOutcomes(functionName, parsedArgs) ==
    IF functionName = "searchProducts" THEN
        IF parsedArgs.isNull
          THEN { [settled |-> "rejected", error |-> "NullArguments"] }
          ELSE UNION { SearchProducts(OrchCatalog, readable, parsedArgs.members.query) :
                         readable \in BOOLEAN }
    ELSE IF functionName = "convertCurrencies" THEN
        IF parsedArgs.isNull
          THEN { [settled |-> "rejected", error |-> "NullArguments"] }
          ELSE { [ settled |-> "resolved",
                   value   |-> ConvertCurrencies(parsedArgs.members.amount,
                                                 parsedArgs.members.fromCurrency,
                                                 parsedArgs.members.toCurrency, resp) ] :
                   resp \in OrchProviderResponses }
    ELSE { [settled |-> "resolved", value |-> Str("")] }

\* Faulty variant of PushMessages: the result is pushed before the request.
PushMessagesResultFirst(messages, response, functionName, functionResult) ==
    Append(Append(messages,
                  [role |-> "function", name |-> functionName, content |-> functionResult]),
           response)

\* Lines 109-114: the two messages a completed loop body pushes.
PushMessages(messages, response, functionName, functionResult) ==
    Append(Append(messages, response),
           [role |-> "function", name |-> functionName, content |-> functionResult])

\* Faulty variant of LoopContinues: the limit is tested with <=.
LoopContinuesOffByOne(response, steps) ==
    response.function_call # None /\ steps <= MaxSteps

\* Line 95: the loop condition.
LoopContinues(response, steps) ==
    response.function_call # None /\ steps < MaxSteps

\* Line 120: currentResponse.content || '[No final response]'
FinalOutput(response) ==
    IF response.content = Null \/ response.content = Str("")
      THEN Placeholder
      ELSE response.content

InitEndpoint ==
    /\ pc = "Received"
    /\ body \in Bodies
    /\ currentMessages = <<>> /\ currentResponse = None /\ step = 0
    /\ sent = <<>> /\ gatewayCalls = 0 /\ dispatches = 0
    /\ output = None /\ error = "none"
    /\ IdleSearch /\ IdleConvert

\* The request body is validated against UserQueryDto before the handler runs.
ValidationPipe ==
    /\ pc = "Received"
    /\ pc' = IF IsString(body) THEN "Validated" ELSE "Rejected"
    /\ UNCHANGED <<body, currentMessages, currentResponse, step, sent,
                   gatewayCalls, dispatches, output, error>>
    /\ UNCHANGED <<searchVars, convertVars>>

\* handleUserQuery calls processUserQuery, which seeds the transcript and
\* makes the first gateway call (chat.controller.ts:11, chat.service.ts:42-90).
HandleUserQuery ==
    /\ pc = "Validated"
    /\ currentMessages' = << [role |-> "user", content |-> body] >>
    /\ sent' = currentMessages'
    /\ gatewayCalls' = gatewayCalls + 1
    /\ pc' = "AwaitingReply"
    /\ UNCHANGED <<body, currentResponse, step, dispatches, output, error>>
    /\ UNCHANGED <<searchVars, convertVars>>

\* chatWithFunctions returns a message: lines 90 or 116-117, then the loop
\* test of line 95 and, when the loop is left, the return of line 120.
GatewayReply ==
    /\ pc = "AwaitingReply"
    /\ \E reply \in Replies :
         LET steps == IF dispatches > 0 THEN step + 1 ELSE step
         IN  /\ currentResponse' = reply
             /\ step' = steps
             /\ IF LoopContinues(reply, steps)
                  THEN pc' = "DispatchingFunction" /\ output' = output
                  ELSE pc' = "Done" /\ output' = FinalOutput(reply)
    /\ UNCHANGED <<body, currentMessages, sent, gatewayCalls, dispatches, error>>
    /\ UNCHANGED <<searchVars, convertVars>>

\* chatWithFunctions throws (openai.service.ts:19): nothing catches it.
GatewayFailure ==
    /\ pc = "AwaitingReply"
    /\ pc' = "Raised"
    /\ error' = "ProviderFailure"
    /\ UNCHANGED <<body, currentMessages, currentResponse, step, sent,
                   gatewayCalls, dispatches, output>>
    /\ UNCHANGED <<searchVars, convertVars>>

\* One loop body, lines 96-116: parse, route, push, call the gateway again.
DispatchFunction ==
    /\ pc = "DispatchingFunction"
    /\ dispatches' = dispatches + 1
    /\ LET functionName == currentResponse.function_call.name
           functionArgs == currentResponse.function_call.arguments
           parsedArgs   == JSONParse(functionArgs)
       IN  IF parsedArgs.thrown
             THEN /\ pc' = "Raised"
                  /\ error' = "SyntaxError"
                  /\ UNCHANGED <<currentMessages, sent, gatewayCalls>>
             ELSE \E r \in ToolOutcomes(functionName, parsedArgs) :
                    IF r.settled = "rejected"
                      THEN /\ pc' = "Raised"
                           /\ error' = r.error
                           /\ UNCHANGED <<currentMessages, sent, gatewayCalls>>
                      ELSE /\ currentMessages' =
                                PushMessages(currentMessages, currentResponse,
                                             functionName, r.value)
                           /\ sent' = currentMessages'
                           /\ gatewayCalls' = gatewayCalls + 1
                           /\ pc' = "AwaitingReply"
                           /\ error' = error
    /\ UNCHANGED <<body, currentResponse, step, output>>
    /\ UNCHANGED <<searchVars, convertVars>>

Next ==
    \/ ValidationPipe
    \/ HandleUserQuery
    \/ GatewayReply
    \/ GatewayFailure
    \/ DispatchFunction

Spec == InitEndpoint /\ [][Next]_vars

(***************************************************************************)
(* Properties of the endpoint (specification Spec)                         *)
(***************************************************************************)
IsFunctionCall(m) == m.role = "assistant" /\ m.function_call # None

\* Errors that come from a gateway call or from inside a tool call.
GatewayErrors == {"ProviderFailure"}
ToolErrors    == {"CatalogUnavailable", "QueryNotString"}

\* C1: processUserQuery makes at most MaxSteps dispatch cycles and at most
\* MaxSteps + 1 gateway calls, and, unless a gateway call or a tool call
\* failed to return, it never raises: it ends in Done with a string output.
C1_TerminatesWithStringOutput ==
    /\ dispatches <= MaxSteps
    /\ gatewayCalls <= MaxSteps + 1
    /\ pc = "Raised" => error \in GatewayErrors \cup ToolErrors
    /\ pc = "Done" => IsStr(output)

\* C2: in every transcript handed to the gateway, a function-result message
\* comes right after an assistant function-call request and carries the name
\* that request names, whatever the name.
C2_ResultFollowsItsRequest ==
    \A i \in 1..Len(sent) :
        sent[i].role = "function" =>
            /\ i > 1
            /\ IsFunctionCall(sent[i - 1])
            /\ sent[i - 1].function_call.name = sent[i].name

\* C2 witness: a transcript was sent that holds the result of a function
\* that is not one of the two declared tools, after two earlier results.
C2_Witness ==
    /\ Len(sent) = 7
    /\ sent[7].role = "function" /\ sent[7].name = "lookupOrder"
    /\ sent[3].role = "function" /\ sent[3].name = "searchProducts"
    /\ sent[5].role = "function" /\ sent[5].name = "convertCurrencies"

\* C3: a function-call request whose arguments are not valid JSON does not
\* crash the request: the dispatch step pushes the request and a
\* function-result message and goes on to the next gateway call.
C3_MalformedArgumentsTolerated ==
    [][ ( /\ pc = "DispatchingFunction"
          /\ currentResponse.function_call.arguments = ArgsMalformed )
        => ( /\ pc' = "AwaitingReply"
             /\ Len(currentMessages') = Len(currentMessages) + 2
             /\ currentMessages'[Len(currentMessages')].role = "function"
             /\ gatewayCalls' = gatewayCalls + 1 ) ]_vars

\* C4: a failure inside a dispatched tool never aborts the request: every
\* dispatch whose arguments parsed to an object pushes a function-result
\* message and goes on to the next gateway call, so that a request is only
\* ever aborted by a failed gateway call.
C4_ToolFailuresBecomeResults ==
    [][ ( /\ pc = "DispatchingFunction"
          /\ currentResponse.function_call.arguments.form \in {"absent", "object"} )
        => ( /\ pc' = "AwaitingReply"
             /\ Len(currentMessages') = Len(currentMessages) + 2
             /\ currentMessages'[Len(currentMessages')].role = "function"
             /\ gatewayCalls' = gatewayCalls + 1 ) ]_vars

\* C5: a request whose query is not a non-empty string is rejected:
\* processUserQuery is never entered and no gateway call is made for it.
C5_RejectsAllButNonEmptyStrings ==
    (~IsStr(body) \/ body = Str("")) =>
        /\ pc \in {"Received", "Rejected"}
        /\ gatewayCalls = 0
        /\ currentMessages = <<>>

\* C9: a reply that requests a function call when the step counter equals
\* the limit ends the request without being dispatched or pushed (the
\* transcript is still the one the gateway was last given, and it ends with
\* the last function result); a reply with a function call is dispatched
\* only below the limit; and the output of a finished request is the text
\* its last reply carries, or the placeholder when that reply carries none
\* or the empty text.
C9_SafetyValveAndOutput ==
    /\ pc = "DispatchingFunction" =>
          /\ currentResponse.function_call # None
          /\ step < MaxSteps
    /\ pc = "Done" =>
          /\ currentResponse.function_call # None =>
                /\ step = MaxSteps
                /\ dispatches = MaxSteps
                /\ currentMessages = sent
                /\ Len(currentMessages) = 1 + 2 * MaxSteps
                /\ currentMessages[Len(currentMessages)].role = "function"
          /\ currentResponse.content \in {Null, Str("")} =>
                output = Str("[No final response]")
          /\ currentResponse.content \notin {Null, Str("")} =>
                output = currentResponse.content

\* C9 witness: the request ended on a function-call reply at the limit, and
\* its output is the text that reply carried.
C9_Witness ==
    /\ pc = "Done"
    /\ step = MaxSteps
    /\ currentResponse.function_call # None
    /\ output = Str("Let me check")

(***************************************************************************)
(* Properties of searchProducts (specification SpecSearch)                 *)
(***************************************************************************)
\* q is a case-insensitive substring of text.
SubstringIgnoringCase(q, text) ==
    \E off \in 0..Len(text) :
        /\ off + Len(q) <= Len(text)
        /\ \A j \in 1..Len(q) : LowerChar(text[off + j]) = LowerChar(q[j])

\* Positions of the catalog entries whose title or description holds the query.
MatchingPositions ==
    { i \in 1..Len(catalog) :
        \/ SubstringIgnoringCase(query.s, catalog[i].displayTitle)
        \/ SubstringIgnoringCase(query.s, catalog[i].embeddingText) }

SearchResolved == searchOutcome # None /\ searchOutcome.settled = "resolved"

Min(a, b) == IF a < b THEN a ELSE b

\* The response's blocks show the selected entries, numbered from 1.
BlocksShowSelection ==
    LET sel    == searchOutcome.selectedProducts
        blocks == searchOutcome.value.blocks
    IN  /\ Len(blocks) = Len(sel)
        /\ \A k \in 1..Len(sel) :
              /\ blocks[k].n = k
              /\ blocks[k].title = catalog[sel[k]].displayTitle
              /\ blocks[k].text  = catalog[sel[k]].embeddingText
              /\ blocks[k].price = catalog[sel[k]].price

\* C6: when the query matches at least one entry, the response holds at most
\* two entries, they are the first matching entries in catalog order, each
\* matches, and the header is the "related" one.
C6_MatchesReturnFirstTwoRelated ==
    (SearchResolved /\ MatchingPositions # {}) =>
        LET sel == searchOutcome.selectedProducts
        IN  /\ Len(sel) <= 2
            /\ Len(sel) = Min(2, Cardinality(MatchingPositions))
            /\ \A k \in 1..Len(sel) :
                  /\ sel[k] \in MatchingPositions
                  /\ Cardinality({ i \in MatchingPositions : i < sel[k] }) = k - 1
            /\ searchOutcome.value.header = "related"
            /\ BlocksShowSelection

\* C6 witness: three entries match through their description or title, the
\* first entry of the catalog does not, and the response shows two of them.
C6_Witness ==
    /\ SearchResolved
    /\ Cardinality(MatchingPositions) >= 2
    /\ 1 \notin MatchingPositions
    /\ Len(query.s) > 0
    /\ searchOutcome.selectedProducts = <<2, 3>>

\* C7: when the query matches no entry, the response holds exactly
\* min(2, catalog size) entries at distinct catalog positions, under the
\* fallback header, whatever the random order was.
C7_NoMatchReturnsFallbackPair ==
    (SearchResolved /\ MatchingPositions = {}) =>
        LET sel == searchOutcome.selectedProducts
        IN  /\ Len(sel) = Min(2, Len(catalog))
            /\ \A k \in 1..Len(sel) : sel[k] \in 1..Len(catalog)
            /\ \A k, l \in 1..Len(sel) : k # l => sel[k] # sel[l]
            /\ searchOutcome.value.header = "fallback"
            /\ BlocksShowSelection

\* C7 witness: no entry matches, and the fallback shows the third and the
\* first entry of a three-entry catalog, in that order.
C7_Witness ==
    /\ SearchResolved
    /\ MatchingPositions = {}
    /\ Len(catalog) = 3
    /\ searchOutcome.selectedProducts = <<3, 1>>
    /\ searchOutcome.value.header = "fallback"

\* C8: an empty or whitespace-only query takes the fallback path.
C8_BlankQueryFallsBack ==
    (SearchResolved /\ \A j \in 1..Len(query.s) : query.s[j] = " ") =>
        searchOutcome.value.header = "fallback"

(***************************************************************************)
(* Properties of convertCurrencies (specification SpecConvert)             *)
(***************************************************************************)
IsDigits(s) == Len(s) > 0 /\ \A i \in 1..Len(s) : IsDigit(s[i])

\* A single numeric amount: a number, or a string of digits, which white
\* space may surround.
IsSingleAmount(v) ==
    \/ v.t = "number"
    \/ IsStr(v) /\ IsDigits(Trim(v.s))
SingleValue(v) == IF v.t = "number" THEN v.n ELSE DecimalValue(Trim(v.s))

\* A range amount "<min> - <max>": digits, a dash, digits, with optional
\* white space around each bound.
DashAt(s) == CHOOSE i \in 1..Len(s) : s[i] = "-"
IsRangeAmount(v) ==
    /\ IsStr(v)
    /\ Cardinality({ i \in 1..Len(v.s) : v.s[i] = "-" }) = 1
    /\ IsDigits(Trim(SubSeq(v.s, 1, DashAt(v.s) - 1)))
    /\ IsDigits(Trim(SubSeq(v.s, DashAt(v.s) + 1, Len(v.s))))
RangeMin(v) == DecimalValue(Trim(SubSeq(v.s, 1, DashAt(v.s) - 1)))
RangeMax(v) == DecimalValue(Trim(SubSeq(v.s, DashAt(v.s) + 1, Len(v.s))))

Converted == convertOutcome # None
NonEmptyTable == Converted /\ provider.kind = "ok" /\ provider.hasResults
                   /\ Len(provider.results) > 0

\* The members of the returned table that are for the target currency.
TargetMembers ==
    { i \in 1..Len(provider.results) : provider.results[i].currency = toCurrency.s }
HasTargetRate ==
    \E i \in TargetMembers : provider.results[i].rate # 0

\* Both bounds are reported, each converted with the rate of the member
\* that is for the target currency.
ReportsRange ==
    /\ convertOutcome.msg = "Range"
    /\ convertOutcome.to = toCurrency
    /\ TargetMembers # {}
    /\ \A i \in TargetMembers :
          /\ convertOutcome.convertedMin = ToFixed2(RangeMin(amount) * provider.results[i].rate)
          /\ convertOutcome.convertedMax = ToFixed2(RangeMax(amount) * provider.results[i].rate)

\* One converted value is reported per member of the table, in table order.
ReportsEveryRate ==
    /\ convertOutcome.msg = "List"
    /\ Len(convertOutcome.resultStrings) = Len(provider.results)
    /\ \A i \in 1..Len(provider.results) :
          /\ convertOutcome.resultStrings[i].currency = provider.results[i].currency
          /\ convertOutcome.resultStrings[i].value =
                ToFixed2(SingleValue(amount) * provider.results[i].rate)

\* The currency codes that a toCurrency argument asks the provider for.
Requested(to) == IF to.s = "USD,GBP" THEN {"USD", "GBP"} ELSE {to.s}

\* The table answers the request: it holds a non-zero rate for each
\* requested currency and no other member.
TableAnswersRequest ==
    /\ { provider.results[i].currency : i \in 1..Len(provider.results) }
          = Requested(toCurrency)
    /\ \A i \in 1..Len(provider.results) : provider.results[i].rate # 0

====
